---- MODULE Spec2Model ----
(***************************************************************************)
(* Model of the two Streamlit programs of AI-PDFSearch:                    *)
(*   app.py        offline lexical retriever + extractive synthesizer      *)
(*   prompt_ui.py  FAISS semantic index + generative (Gemini) chain        *)
(*                                                                         *)
(* Text is modelled as a sequence of one-character strings, so that        *)
(* lower-casing, splitting, stripping, regular-expression substitution and *)
(* difflib's similarity ratio are computed, not assumed.                   *)
(***************************************************************************)
EXTENDS Integers, Sequences, FiniteSets, TLC

VARIABLES
    files,          \* app.py: value of st.file_uploader (list of uploaded files)
    question,       \* app.py: value of st.text_input
    docs_text,      \* app.py: st.session_state.docs_text
    chat_history,   \* app.py: st.session_state.chat_history
    button,         \* app.py: the st.button that returned True in the last script run
    last_send,      \* app.py: locals of the Send handler in the last script run
    frc,            \* one call of find_relevant_chunks: arguments, locals, result
    gen,            \* one call of generate_gpt_style_answer: arguments, locals, result
    pdf_docs,       \* prompt_ui.py: value of st.file_uploader
    user_question,  \* prompt_ui.py: value of st.text_input
    vector_store,   \* prompt_ui.py: st.session_state["vector_store"]
    faiss_index,    \* prompt_ui.py: the directory "faiss_index" on disk
    qa_chain,       \* prompt_ui.py: st.session_state["qa_chain"]
    conversation,   \* prompt_ui.py: st.session_state["conversation"]
    last_run,       \* prompt_ui.py: what the last script run did and showed
    last_build      \* prompt_ui.py: text_chunks of the last completed build

vars == <<files, question, docs_text, chat_history, button, last_send, frc, gen,
          pdf_docs, user_question, vector_store, faiss_index, qa_chain,
          conversation, last_run, last_build>>

appVars == <<files, question, docs_text, chat_history, button, last_send>>
uiVars == <<pdf_docs, user_question, vector_store, faiss_index, qa_chain,
            conversation, last_run, last_build>>

-----------------------------------------------------------------------------
(* Characters and elementary string functions (Python str methods)         *)

EmptyStr == <<>>

Digits == {"0","1","2","3","4","5","6","7","8","9"}

ToLower ==
    ("A" :> "a") @@ ("B" :> "b") @@ ("C" :> "c") @@ ("D" :> "d") @@ ("E" :> "e") @@
    ("F" :> "f") @@ ("G" :> "g") @@ ("H" :> "h") @@ ("I" :> "i") @@ ("J" :> "j") @@
    ("K" :> "k") @@ ("L" :> "l") @@ ("M" :> "m") @@ ("N" :> "n") @@ ("O" :> "o") @@
    ("P" :> "p") @@ ("Q" :> "q") @@ ("R" :> "r") @@ ("S" :> "s") @@ ("T" :> "t") @@
    ("U" :> "u") @@ ("V" :> "v") @@ ("W" :> "w") @@ ("X" :> "x") @@ ("Y" :> "y") @@
    ("Z" :> "z")

Letters == DOMAIN ToLower \cup {ToLower[c] : c \in DOMAIN ToLower}

\* \w of the re module: letters, digits and the underscore
IsWordChar(c) == c \in Letters \cup Digits \cup {"_"}

\* whitespace of str.split() and str.strip()
IsSpace(c) == c \in {" ", "\n", "\t"}

LowerChar(c) == IF c \in DOMAIN ToLower THEN ToLower[c] ELSE c

\* str.lower()
Lower(s) == [i \in 1..Len(s) |-> LowerChar(s[i])]

\* s[lo:hi] with 0-based Python bounds, clipped to the sequence
Slice(s, lo, hi) ==
    LET h == IF hi > Len(s) THEN Len(s) ELSE hi
    IN IF lo >= h THEN <<>> ELSE SubSeq(s, lo + 1, h)

\* str.strip()
Strip(s) ==
    LET keep == SelectSeq([i \in 1..Len(s) |-> i], LAMBDA i : ~IsSpace(s[i]))
    IN IF keep = <<>> THEN EmptyStr ELSE SubSeq(s, keep[1], keep[Len(keep)])

\* (sub in s) for strings
Contains(s, sub) ==
    \E i \in 0..(Len(s) - Len(sub)) : SubSeq(s, i + 1, i + Len(sub)) = sub

\* sep.join(parts)
RECURSIVE Join(_, _)
Join(parts, sep) ==
    IF Len(parts) = 0 THEN EmptyStr
    ELSE IF Len(parts) = 1 THEN parts[1]
    ELSE parts[1] \o sep \o Join(Tail(parts), sep)

\* the positions 1..Len(s) that satisfy Test, in increasing order
Positions(s, Test(_)) == SelectSeq([i \in 1..Len(s) |-> i], Test)

\* s.split(sep) for a one-character separator: the fields between
\* consecutive separators, always at least one field
SplitOn(s, sep) ==
    LET at == Positions(s, LAMBDA i : s[i] = sep)
        from(n) == IF n = 1 THEN 1 ELSE at[n - 1] + 1
        to(n) == IF n > Len(at) THEN Len(s) ELSE at[n] - 1
    IN [n \in 1..(Len(at) + 1) |-> SubSeq(s, from(n), to(n))]

\* s.split(): the maximal runs of non-whitespace characters
SplitWords(s) ==
    LET starts == Positions(s, LAMBDA i : ~IsSpace(s[i]) /\ (i = 1 \/ IsSpace(s[i - 1])))
        ends == Positions(s, LAMBDA i : ~IsSpace(s[i]) /\ (i = Len(s) \/ IsSpace(s[i + 1])))
    IN [n \in 1..Len(starts) |-> SubSeq(s, starts[n], ends[n])]

-----------------------------------------------------------------------------
(* app.py: remove_page_numbers, re.sub(r'\b\d{1,4}\b', '', text)           *)

MaxPageDigits == 4

\* \b between position i-1 and i (1-based: before character i)
WordBoundary(s, i) ==
    LET before == i > 1 /\ IsWordChar(s[i - 1])
        after  == i <= Len(s) /\ IsWordChar(s[i])
    IN before # after

\* lengths k of a match of \b\d{1,4}\b starting at character i
PageNumberMatches(s, i) ==
    {k \in 1..MaxPageDigits :
        /\ i + k - 1 <= Len(s)
        /\ \A j \in i..(i + k - 1) : s[j] \in Digits
        /\ WordBoundary(s, i)
        /\ WordBoundary(s, i + k)}

\* A match starts and ends at a word boundary and holds digits only, so no
\* match starts inside another: character j is deleted iff a match covers it.
InPageNumber(s, j) ==
    /\ s[j] \in Digits
    /\ \E i \in (j - MaxPageDigits + 1)..j :
          i >= 1 /\ \E k \in PageNumberMatches(s, i) : j < i + k

remove_page_numbers(text) ==
    LET kept == Positions(text, LAMBDA j : ~InPageNumber(text, j))
    IN [n \in 1..Len(kept) |-> text[kept[n]]]

-----------------------------------------------------------------------------
(* app.py: similarity, difflib.SequenceMatcher(None, a, b).ratio()         *)

\* length of the common prefix of a[i..ahi) and b[j..bhi) (0-based, exclusive)
RECURSIVE CommonPrefix(_, _, _, _, _, _)
CommonPrefix(a, b, i, ahi, j, bhi) ==
    IF i < ahi /\ j < bhi /\ a[i + 1] = b[j + 1]
    THEN 1 + CommonPrefix(a, b, i + 1, ahi, j + 1, bhi)
    ELSE 0

\* SequenceMatcher.find_longest_match without junk: the longest block,
\* of those the one starting earliest in a, of those the earliest in b
find_longest_match(a, b, alo, ahi, blo, bhi) ==
    LET cands == {<<i, j>> \in (alo..(ahi - 1)) \X (blo..(bhi - 1)) : a[i + 1] = b[j + 1]}
        len(p) == CommonPrefix(a, b, p[1], ahi, p[2], bhi)
        Better(p, q) == \/ len(p) > len(q)
                        \/ len(p) = len(q) /\ p[1] < q[1]
                        \/ len(p) = len(q) /\ p[1] = q[1] /\ p[2] <= q[2]
    IN IF cands = {} THEN <<alo, blo, 0>>
       ELSE LET best == CHOOSE p \in cands : \A q \in cands : Better(p, q)
            IN <<best[1], best[2], len(best)>>

\* sum of the sizes of SequenceMatcher.get_matching_blocks
RECURSIVE MatchCount(_, _, _, _, _, _)
MatchCount(a, b, alo, ahi, blo, bhi) ==
    LET m == find_longest_match(a, b, alo, ahi, blo, bhi)
        i == m[1]
        j == m[2]
        k == m[3]
    IN IF k = 0 THEN 0
       ELSE k + (IF alo < i /\ blo < j THEN MatchCount(a, b, alo, i, blo, j) ELSE 0)
              + (IF i + k < ahi /\ j + k < bhi
                 THEN MatchCount(a, b, i + k, ahi, j + k, bhi) ELSE 0)

\* the ratio 2.0*M/T as an exact fraction; 1.0 when both strings are empty
similarity(a, b) ==
    LET la == Lower(a)
        lb == Lower(b)
        total == Len(la) + Len(lb)
    IN IF total = 0 THEN [num |-> 1, den |-> 1]
       ELSE [num |-> 2 * MatchCount(la, lb, 0, Len(la), 0, Len(lb)), den |-> total]

ScoreGreater(x, y) == x.num * y.den > y.num * x.den
ScoreEqual(x, y) == x.num * y.den = y.num * x.den

-----------------------------------------------------------------------------
(* app.py: find_relevant_chunks                                            *)

DefaultMaxChunks == 5
DefaultMaxLines == 40

\* chunks after the enumerate loop: (score, i) for every line, i from 0
ScoredLines(q, lines) ==
    [n \in 1..Len(lines) |-> [score |-> similarity(q, lines[n]), idx |-> n - 1]]

\* a descending sort that puts e before the elements of equal key
RECURSIVE InsertDesc_before_equal(_, _)
InsertDesc_before_equal(sorted, e) ==
    IF sorted = <<>> THEN <<e>>
    ELSE IF ~ScoreGreater(sorted[1].score, e.score) THEN <<e>> \o sorted
    ELSE <<sorted[1]>> \o InsertDesc_before_equal(Tail(sorted), e)

\* put e after every element whose key is >= its own: stable, descending
RECURSIVE InsertDesc(_, _)
InsertDesc(sorted, e) ==
    IF sorted = <<>> THEN <<e>>
    ELSE IF ScoreGreater(e.score, sorted[1].score) THEN <<e>> \o sorted
    ELSE <<sorted[1]>> \o InsertDesc(Tail(sorted), e)

\* sorted(chunks, key=lambda x: x[0], reverse=True)
RECURSIVE SortDesc(_, _, _)
SortDesc(chunks, n, acc) ==
    IF n > Len(chunks) THEN acc
    ELSE SortDesc(chunks, n + 1, InsertDesc(acc, chunks[n]))

RankedLines(q, lines) == SortDesc(ScoredLines(q, lines), 1, <<>>)

\* the selection loop over chunks[:max_chunks]; returns the selected idx
RECURSIVE SelectLoop(_, _, _, _, _)
SelectLoop(top, n, used_indices, selected, max_lines) ==
    IF n > Len(top) THEN selected
    ELSE LET idx == top[n].idx
         IN IF idx \in used_indices
            THEN SelectLoop(top, n + 1, used_indices, selected, max_lines)
            ELSE SelectLoop(top, n + 1,
                            used_indices \cup (idx..(idx + max_lines - 1)),
                            Append(selected, idx), max_lines)

SelectedIdx(q, lines, max_chunks, max_lines) ==
    SelectLoop(Slice(RankedLines(q, lines), 0, max_chunks), 1, {}, <<>>, max_lines)

NL == <<"\n">>

find_relevant_chunks(q, text, max_chunks, max_lines) ==
    LET lines == SplitOn(text, "\n")
        sel == SelectedIdx(q, lines, max_chunks, max_lines)
        selected_chunks ==
            [n \in 1..Len(sel) |-> Join(Slice(lines, sel[n], sel[n] + max_lines), NL)]
    IN Join(selected_chunks, NL \o NL)

-----------------------------------------------------------------------------
(* Bounded inputs of the function-level specifications                     *)

MaxFrcLines == 3
MaxFrcChunks == 3
MaxFrcWindow == 3

FrcLineVocab == {<<"a">>, <<"a","b">>, <<"b">>, <<"B","c">>, EmptyStr}
FrcQuestions == {<<"b">>, <<"A","b">>}

RECURSIVE SeqsUpTo(_, _)
SeqsUpTo(S, n) ==
    IF n = 0 THEN {<<>>}
    ELSE LET shorter == SeqsUpTo(S, n - 1)
         IN shorter \cup {Append(s, x) : s \in {t \in shorter : Len(t) = n - 1}, x \in S}

FrcTexts == {Join(ls, NL) : ls \in SeqsUpTo(FrcLineVocab, MaxFrcLines) \ {<<>>}}

NoCall == [pc |-> "idle"]

FrcInit ==
    \E q \in FrcQuestions, t \in FrcTexts, mc \in 0..MaxFrcChunks, ml \in 1..MaxFrcWindow :
        frc = [pc |-> "call", question |-> q, text |-> t, max_chunks |-> mc,
               max_lines |-> ml]

\* the call returns: the locals the claims speak of are kept with the result
FrcCall ==
    /\ frc.pc = "call"
    /\ LET lines == SplitOn(frc.text, "\n")
       IN frc' = [frc EXCEPT !.pc = "done"] @@
                 [lines |-> lines,
                  chunks |-> RankedLines(frc.question, lines),
                  selected |-> SelectedIdx(frc.question, lines, frc.max_chunks, frc.max_lines),
                  result |-> find_relevant_chunks(frc.question, frc.text,
                                                  frc.max_chunks, frc.max_lines)]
    /\ UNCHANGED <<appVars, gen, uiVars>>

-----------------------------------------------------------------------------
(* app.py: generate_gpt_style_answer                                       *)

MinKeywordLen == 3
MinSentenceLen == 10
MaxPoints == 6

SentenceEnd == {".", "!", "?"}

\* re.split(r'(?<=[.!?]) +', context): a run of spaces that follows . ! or ?
\* separates two sentences; the whole run is consumed by one match
SplitSentences(s) ==
    LET starts == Positions(s, LAMBDA i : s[i] = " " /\ i > 1 /\ s[i - 1] \in SentenceEnd)
        \* first character after the run of spaces that starts at i
        RunEnd(i) == CHOOSE j \in (i + 1)..(Len(s) + 1) :
                        /\ j = Len(s) + 1 \/ s[j] # " "
                        /\ \A k \in i..(j - 1) : s[k] = " "
        from(n) == IF n = 1 THEN 1 ELSE RunEnd(starts[n - 1])
        to(n) == IF n > Len(starts) THEN Len(s) ELSE starts[n] - 1
    IN [n \in 1..(Len(starts) + 1) |-> SubSeq(s, from(n), to(n))]

\* sentences, computed on the context with page numbers removed
Sentences(context) ==
    LET cleaned == remove_page_numbers(context)
    IN IF Strip(cleaned) # EmptyStr THEN SplitSentences(cleaned) ELSE <<>>

\* keywords = [w.lower() for w in question.split() if len(w) > 3]
Keywords(q) ==
    LET words == SplitWords(q)
    IN SelectSeq([n \in 1..Len(words) |-> Lower(words[n])],
                 LAMBDA w : Len(w) > MinKeywordLen)

\* the filter without s.lower(): keywords match in lower case only
IsRelevant_case_sensitive(s, keywords) ==
    /\ \E n \in 1..Len(keywords) : Contains(s, keywords[n])
    /\ Len(Strip(s)) > MinSentenceLen

\* the filter of the list comprehension that builds relevant_sentences
IsRelevant(s, keywords) ==
    /\ \E n \in 1..Len(keywords) : Contains(Lower(s), keywords[n])
    /\ Len(Strip(s)) > MinSentenceLen

\* relevant_sentences, from the two lists built before it
RelevantOf(sentences, keywords) ==
    LET kept == SelectSeq(sentences, LAMBDA s : IsRelevant(s, keywords))
    IN [n \in 1..Len(kept) |-> Strip(kept[n])]

RelevantSentences(q, context) == RelevantOf(Sentences(context), Keywords(q))
Fallback1 ==
    <<"S","p","l","i","t","t","i","n","g"," ","d","a","t","a"," ","i","n","t","o"," ","t","r",
      "a","i","n","i","n","g"," ","a","n","d"," ","t","e","s","t"," ","s","e","t","s"," ","e",
      "n","s","u","r","e","s"," ","t","h","e"," ","m","o","d","e","l"," ","i","s"," ","e","v",
      "a","l","u","a","t","e","d"," ","o","n"," ","u","n","s","e","e","n"," ","d","a","t","a",","," ","p","r","e","v","e","n","t","i","n","g"," ","o","v","e","r","f","i","t","t","i","n",
      "g",".">>
Fallback2 ==
    <<"P","e","r","f","o","r","m","a","n","c","e"," ","m","e","t","r","i","c","s"," ","l","i",
      "k","e"," ","a","c","c","u","r","a","c","y",","," ","p","r","e","c","i","s","i","o","n",","," ","r","e","c","a","l","l",","," ","F","1","-","s","c","o","r","e",","," ","a","n","d",
      " ","R","²"," ","h","e","l","p"," ","m","e","a","s","u","r","e"," ","h","o","w"," ","w",
      "e","l","l"," ","t","h","e"," ","m","o","d","e","l"," ","p","e","r","f","o","r","m","s",
      " ","f","o","r"," ","d","i","f","f","e","r","e","n","t"," ","t","a","s","k","s",".">>
Fallback3 ==
    <<"C","r","o","s","s","-","v","a","l","i","d","a","t","i","o","n"," ","e","v","a","l","u",
      "a","t","e","s"," ","t","h","e"," ","m","o","d","e","l"," ","a","c","r","o","s","s"," ",
      "m","u","l","t","i","p","l","e"," ","d","a","t","a"," ","s","p","l","i","t","s"," ","t",
      "o"," ","g","e","t"," ","a"," ","m","o","r","e"," ","r","e","l","i","a","b","l","e"," ",
      "e","s","t","i","m","a","t","e"," ","o","f"," ","p","e","r","f","o","r","m","a","n","c",
      "e",".">>
Fallback4 ==
    <<"H","y","p","e","r","p","a","r","a","m","e","t","e","r"," ","t","u","n","i","n","g"," ",
      "u","s","i","n","g"," ","t","e","c","h","n","i","q","u","e","s"," ","l","i","k","e"," ",
      "G","r","i","d"," ","S","e","a","r","c","h"," ","o","r"," ","R","a","n","d","o","m"," ",
      "S","e","a","r","c","h"," ","h","e","l","p","s"," ","o","p","t","i","m","i","z","e"," ",
      "m","o","d","e","l"," ","p","e","r","f","o","r","m","a","n","c","e"," ","b","y"," ","f",
      "i","n","d","i","n","g"," ","t","h","e"," ","b","e","s","t"," ","p","a","r","a","m","e",
      "t","e","r"," ","s","e","t","t","i","n","g","s",".">>
Fallback5 ==
    <<"F","e","a","t","u","r","e"," ","s","e","l","e","c","t","i","o","n"," ","a","n","d"," ",
      "e","n","g","i","n","e","e","r","i","n","g"," ","c","a","n"," ","i","m","p","r","o","v",
      "e"," ","m","o","d","e","l"," ","a","c","c","u","r","a","c","y"," ","b","y"," ","i","d",
      "e","n","t","i","f","y","i","n","g"," ","t","h","e"," ","m","o","s","t"," ","i","n","f",
      "l","u","e","n","t","i","a","l"," ","v","a","r","i","a","b","l","e","s"," ","a","n","d",
      " ","r","e","d","u","c","i","n","g"," ","n","o","i","s","e",".">>
Fallback6 ==
    <<"I","t","e","r","a","t","i","v","e"," ","m","o","d","e","l"," ","i","m","p","r","o","v",
      "e","m","e","n","t"," ","i","n","v","o","l","v","e","s"," ","t","r","y","i","n","g"," ",
      "d","i","f","f","e","r","e","n","t"," ","a","l","g","o","r","i","t","h","m","s",","," ",
      "a","d","j","u","s","t","i","n","g"," ","p","a","r","a","m","e","t","e","r","s",","," ",
      "a","n","d"," ","a","n","a","l","y","z","i","n","g"," ","e","r","r","o","r","s"," ","t",
      "o"," ","e","n","h","a","n","c","e"," ","o","v","e","r","a","l","l"," ","p","r","e","d",
      "i","c","t","i","o","n"," ","q","u","a","l","i","t","y",".">>
fallback_points == <<Fallback1, Fallback2, Fallback3, Fallback4, Fallback5, Fallback6>>

\* points = relevant_sentences[:6] if relevant_sentences else fallback_points[:6]
\* the choice of points with the canned list cut one short
PointsOf_short_fallback(relevant_sentences) ==
    IF relevant_sentences # <<>> THEN Slice(relevant_sentences, 0, MaxPoints)
    ELSE Slice(fallback_points, 0, MaxPoints - 1)

PointsOf(relevant_sentences) ==
    IF relevant_sentences # <<>> THEN Slice(relevant_sentences, 0, MaxPoints)
    ELSE Slice(fallback_points, 0, MaxPoints)

Points(q, context) == PointsOf(RelevantSentences(q, context))

DigitChar == <<"0","1","2","3","4","5","6","7","8","9">>

\* str(n) for a natural number
RECURSIVE IntToStr(_)
IntToStr(n) ==
    IF n < 10 THEN <<DigitChar[n + 1]>>
    ELSE IntToStr(n \div 10) \o <<DigitChar[(n % 10) + 1]>>

\* f"**Point {i}:** {p}\n\n"
FormatPoint(i, p) ==
    <<"*","*","P","o","i","n","t"," ">> \o IntToStr(i) \o <<":","*","*"," ">> \o p \o NL \o NL

RECURSIVE FormatPoints(_, _)
FormatPoints(points, i) ==
    IF i > Len(points) THEN EmptyStr
    ELSE FormatPoint(i, points[i]) \o FormatPoints(points, i + 1)

\* the loop over enumerate(points, 1) and the final answer.strip()
FormatAnswer(points) == Strip(FormatPoints(points, 1))

generate_gpt_style_answer(q, context) == FormatAnswer(Points(q, context))

-----------------------------------------------------------------------------
(* Bounded inputs of generate_gpt_style_answer                             *)

MaxGenPieces == 3
MaxGenRepeat == 7

QWhatIsData ==
    <<"W","h","a","t"," ","i","s"," ","d","a","t","a","?">>
QIsDataOk ==
    <<"I","s"," ","d","a","t","a"," ","o","k">>
QWhy77 ==
    <<"W","h","y"," ","7","7","?">>
SUseful ==
    <<"D","a","t","a"," ","i","s"," ","u","s","e","f","u","l","."," ">>
SEcho ==
    <<"W","h","a","t"," ","i","s"," ","d","a","t","a","?"," ">>
SUpper ==
    <<"B","i","g"," ","D","A","T","A"," ","1","2"," ","w","i","n","s","!"," ">>
SShort ==
    <<"D","a","t","a"," ","7","7"," ","o","k","."," ">>
SCats ==
    <<"C","a","t","s"," ","n","a","p",".","\n">>
SNo ==
    <<"N","o","."," ">>
SBlank ==
    <<" ">>

GenQuestions == {QWhatIsData, QIsDataOk, QWhy77}
GenPieces == {SUseful, SEcho, SUpper, SShort, SCats, SNo, SBlank}
GenRepeated == {SUseful, SEcho}

RECURSIVE Concat(_)
Concat(parts) == IF parts = <<>> THEN EmptyStr ELSE parts[1] \o Concat(Tail(parts))

RECURSIVE Repeat(_, _)
Repeat(s, n) == IF n = 0 THEN EmptyStr ELSE s \o Repeat(s, n - 1)

GenContexts ==
    {Concat(ps) : ps \in SeqsUpTo(GenPieces, MaxGenPieces)}
    \cup {Repeat(p, n) \o t : p \in GenRepeated, n \in 1..MaxGenRepeat,
                             t \in GenPieces \cup {EmptyStr}}

GenInit ==
    \E q \in GenQuestions, c \in GenContexts :
        gen = [pc |-> "call", question |-> q, context |-> c]

\* the call returns: the locals the claims speak of are kept with the result
GenCall ==
    /\ gen.pc = "call"
    /\ LET sentences == Sentences(gen.context)
           keywords == Keywords(gen.question)
           relevant_sentences == RelevantOf(sentences, keywords)
           points == PointsOf(relevant_sentences)
       IN gen' = [gen EXCEPT !.pc = "done"] @@
                 [sentences |-> sentences,
                  keywords |-> keywords,
                  relevant_sentences |-> relevant_sentences,
                  points |-> points,
                  answer |-> FormatAnswer(points)]
    /\ UNCHANGED <<appVars, frc, uiVars>>

-----------------------------------------------------------------------------
(* Initial states of the two programs                                      *)

\* the absent index (st.session_state.get(..., None), no directory on disk)
None == [present |-> FALSE, chunks |-> <<>>]

NoChain == "None"

NoSend == [pc |-> "none"]

\* app.py lines 17-20, with empty widgets
AppInit ==
    /\ files = <<>>
    /\ question = EmptyStr
    /\ docs_text = EmptyStr
    /\ chat_history = <<>>
    /\ button = "none"
    /\ last_send = NoSend

NoRun == [build |-> "none", asked |-> FALSE, ask |-> "none", searched |-> FALSE,
          generated |-> FALSE, index |-> None, docs |-> <<>>]

\* prompt_ui.py: empty st.session_state, empty widgets, no directory on disk
UiInit ==
    /\ pdf_docs = <<>>
    /\ user_question = ""
    /\ vector_store = None
    /\ faiss_index = None
    /\ qa_chain = NoChain
    /\ conversation = <<>>
    /\ last_run = NoRun
    /\ last_build = None

-----------------------------------------------------------------------------
(* app.py: one run of the script                                           *)

ExtPdf == <<".","p","d","f">>
ExtTxt == <<".","t","x","t">>
ExtPptx == <<".","p","p","t","x">>

\* str.endswith
EndsWith(s, suffix) ==
    Len(s) >= Len(suffix) /\ SubSeq(s, Len(s) - Len(suffix) + 1, Len(s)) = suffix

\* lines 101-119 for one file: the cleaned page_content of every document
\* the loader returns, nothing for a name with none of the three endings
FileTexts(f) ==
    IF EndsWith(f.name, ExtPdf) \/ EndsWith(f.name, ExtTxt) \/ EndsWith(f.name, ExtPptx)
    THEN [n \in 1..Len(f.docs) |-> remove_page_numbers(f.docs[n])]
    ELSE <<>>

RECURSIVE AllText(_)
AllText(fs) == IF fs = <<>> THEN <<>> ELSE FileTexts(fs[1]) \o AllText(Tail(fs))

\* "\n".join(all_text)
Ingest(fs) == Join(AllText(fs), NL)

\* lines 32-34: the Clear button, pressed or not
ClearHandler(clear, state) ==
    IF clear THEN [docs_text |-> EmptyStr, chat_history |-> <<>>] ELSE state

\* documents loaded only while the session holds no document text
LoadDocuments_once(fs, state) ==
    IF fs # <<>> /\ state.docs_text = EmptyStr
    THEN [state EXCEPT !.docs_text = Ingest(fs)] ELSE state

\* lines 98-120: documents are loaded whenever the uploader holds a file
LoadDocuments(fs, state) ==
    IF fs # <<>> THEN [state EXCEPT !.docs_text = Ingest(fs)] ELSE state

\* lines 129-130: locals of the Send handler
SendLocals(q, docs) ==
    LET context_chunk == IF docs # EmptyStr
                         THEN find_relevant_chunks(q, docs, DefaultMaxChunks, DefaultMaxLines)
                         ELSE EmptyStr
    IN [pc |-> "sent", question |-> q, docs_text |-> docs, context_chunk |-> context_chunk,
        answer |-> generate_gpt_style_answer(q, context_chunk)]

\* a Send handler that puts the new entry in front
SendHandler_prepend(send, q, state, locals) ==
    IF send /\ q # EmptyStr
    THEN [state EXCEPT !.chat_history =
              <<[question |-> q, answer |-> locals.answer]>> \o @]
    ELSE state

\* lines 127-131: the Send button, pressed or not
SendHandler(send, q, state, locals) ==
    IF send /\ q # EmptyStr
    THEN [state EXCEPT !.chat_history =
              Append(@, [question |-> q, answer |-> locals.answer])]
    ELSE state

MaxHistory == 2

\* one top-to-bottom run with the given widget values
RunScript(fs, q, clear, send) ==
    \E s1 \in {ClearHandler(clear, [docs_text |-> docs_text, chat_history |-> chat_history])} :
    \E s2 \in {LoadDocuments(fs, s1)} :
    \E locals \in {IF send /\ q # EmptyStr THEN SendLocals(q, s2.docs_text) ELSE NoSend} :
    \E s3 \in {SendHandler(send, q, s2, locals)} :
       /\ Len(s3.chat_history) <= MaxHistory
       /\ files' = fs
       /\ question' = q
       /\ docs_text' = s3.docs_text
       /\ chat_history' = s3.chat_history
       /\ button' = (IF clear THEN "clear" ELSE IF send THEN "send" ELSE "none")
       /\ last_send' = locals
       /\ UNCHANGED <<frc, gen, uiVars>>

(* Bounded widget inputs *)

MaxFiles == 2

PageA1 ==
    <<"D","a","t","a"," ","i","s"," ","u","s","e","f","u","l",".","\n","W","h","a","t"," ","i",
      "s"," ","d","a","t","a","?"," ","B","i","g"," ","d","a","t","a",".","\n","1","2">>
PageA2 ==
    <<"P","a","g","e"," ","2","\n","M","o","r","e"," ","d","a","t","a"," ","h","e","r","e","!">>
PageC1 ==
    <<"C","a","t","s"," ","n","a","p","."," ","D","a","t","a"," ","7","7"," ","o","k",".">>
NameA ==
    <<"a",".","p","d","f">>
NameC ==
    <<"c",".","P","D","F">>

NameB ==
    <<"b",".","t","x","t">>
TextB ==
    <<"7">>

\* a two-page PDF, a text file that holds a lone page number, and a file
\* whose name has none of the three endings
FileA == [name |-> NameA, docs |-> <<PageA1, PageA2>>]
FileB == [name |-> NameB, docs |-> <<TextB>>]
FileC == [name |-> NameC, docs |-> <<PageC1>>]

FileVocab == {FileA, FileB, FileC}

\* uploads of at most MaxFiles distinct files, in upload order
Uploads ==
    {fs \in SeqsUpTo(FileVocab, MaxFiles) : \A m, n \in 1..Len(fs) : m # n => fs[m] # fs[n]}

AppQuestions == {EmptyStr, QIsDataOk}

\* the uploader changes: a rerun with no button pressed
ChangeFiles == \E fs \in Uploads : fs # files /\ RunScript(fs, question, FALSE, FALSE)

\* the text input changes: a rerun with no button pressed
ChangeQuestion == \E q \in AppQuestions : q # question /\ RunScript(files, q, FALSE, FALSE)

\* a click reruns the script with that button, and only that button, True
PressClear == RunScript(files, question, TRUE, FALSE)
PressSend == RunScript(files, question, FALSE, TRUE)

InitApp == AppInit /\ frc = NoCall /\ gen = NoCall /\ UiInit
NextApp == ChangeFiles \/ ChangeQuestion \/ PressClear \/ PressSend
SpecApp == InitApp /\ [][NextApp]_vars

-----------------------------------------------------------------------------
(* prompt_ui.py.  Texts are sequences of blocks, a block being the amount  *)
(* of text the splitter turns into one chunk; a page without extractable   *)
(* text is the empty sequence.  An index is the list of chunks it stores,  *)
(* the embedding function being the same at build and at query time.       *)

PageBreak == "\n"

\* get_pdf_text: the text of every page that has some, each followed by "\n"
RECURSIVE PagesText(_)
PagesText(pages) ==
    IF pages = <<>> THEN <<>>
    ELSE (IF pages[1] # <<>> THEN pages[1] \o <<PageBreak>> ELSE <<>>)
         \o PagesText(Tail(pages))

RECURSIVE get_pdf_text(_)
get_pdf_text(pdfs) ==
    IF pdfs = <<>> THEN <<>> ELSE PagesText(pdfs[1].pages) \o get_pdf_text(Tail(pdfs))

\* get_text_chunks: the splitter cuts at the separators and drops them
get_text_chunks(text) == SelectSeq(text, LAMBDA b : b # PageBreak)

\* get_vector_store that builds the index but leaves the directory as it was
get_vector_store_unsaved(text_chunks) ==
    [vector_store |-> [present |-> TRUE, chunks |-> text_chunks], saved |-> faiss_index]

\* get_vector_store: a new index over text_chunks, saved under "faiss_index"
\* before it is returned
get_vector_store(text_chunks) ==
    LET vector_store_ == [present |-> TRUE, chunks |-> text_chunks]
    IN [vector_store |-> vector_store_, saved |-> vector_store_]

\* the embedding of a text: one coordinate is enough to order the chunks
Embedding ==
    ("c1" :> 1) @@ ("c2" :> 6) @@ ("c3" :> 3) @@ ("c4" :> 8) @@ ("c5" :> 2) @@ ("c6" :> 7)
    @@ ("q1" :> 0) @@ ("q2" :> 9)

Distance(x, y) ==
    IF Embedding[x] >= Embedding[y] THEN Embedding[x] - Embedding[y]
    ELSE Embedding[y] - Embedding[x]

TopK == 5

\* put chunk c after every chunk at least as near to q
RECURSIVE InsertNear(_, _, _)
InsertNear(sorted, c, q) ==
    IF sorted = <<>> THEN <<c>>
    ELSE IF Distance(q, c) < Distance(q, sorted[1]) THEN <<c>> \o sorted
    ELSE <<sorted[1]>> \o InsertNear(Tail(sorted), c, q)

RECURSIVE NearestFirst(_, _, _, _)
NearestFirst(chunks, n, q, acc) ==
    IF n > Len(chunks) THEN acc
    ELSE NearestFirst(chunks, n + 1, q, InsertNear(acc, chunks[n], q))

\* vector_store.similarity_search(user_question, k=5)
similarity_search(store, q, k) == Slice(NearestFirst(store.chunks, 1, q, <<>>), 0, k)

\* the text the chain returns for the stuffed prompt, when the call succeeds
ChainOutput(docs, q) == [context |-> docs, question |-> q]

\* lines 108-111, reached only when the chain returned
StoreConversation(conv, q, output_text) == Append(conv, [question |-> q, answer |-> output_text])

\* user_input that records a failed call with a made-up answer
user_input_recording_failure(q, st, disk, call_ok) ==
    IF st.vector_store = None /\ disk = None
    THEN [st |-> st, ask |-> "warning", searched |-> FALSE, generated |-> FALSE,
          index |-> None, docs |-> <<>>]
    ELSE LET store == IF st.vector_store = None THEN disk ELSE st.vector_store
             docs == similarity_search(store, q, TopK)
             st1 == [st EXCEPT !.vector_store = store, !.qa_chain = "chain"]
         IN [st |-> [st1 EXCEPT !.conversation =
                         StoreConversation(@, q, IF call_ok THEN ChainOutput(docs, q)
                                                 ELSE ChainOutput(<<>>, q))],
             ask |-> IF call_ok THEN "answered" ELSE "error",
             searched |-> TRUE, generated |-> TRUE, index |-> store, docs |-> docs]

\* user_input without the test of os.path.exists: it searches whatever
\* load_local gives
user_input_unchecked(q, st, disk, call_ok) ==
    LET store == IF st.vector_store = None THEN disk ELSE st.vector_store
        docs == similarity_search(store, q, TopK)
        st1 == [st EXCEPT !.vector_store = store, !.qa_chain = "chain"]
    IN IF call_ok
       THEN [st |-> [st1 EXCEPT !.conversation =
                         StoreConversation(@, q, ChainOutput(docs, q))],
             ask |-> "answered", searched |-> TRUE, generated |-> TRUE,
             index |-> store, docs |-> docs]
       ELSE [st |-> st1, ask |-> "error", searched |-> TRUE, generated |-> TRUE,
             index |-> store, docs |-> docs]

\* user_input(user_question) on the session st (vector_store, qa_chain,
\* conversation) and the disk; call_ok says whether the generative call
\* returns.  The result is the session after the call and what the call did.
user_input(q, st, disk, call_ok) ==
    IF st.vector_store = None /\ disk = None
    THEN [st |-> st, ask |-> "warning", searched |-> FALSE, generated |-> FALSE,
          index |-> None, docs |-> <<>>]
    ELSE LET store == IF st.vector_store = None THEN disk ELSE st.vector_store
             docs == similarity_search(store, q, TopK)
             st1 == [st EXCEPT !.vector_store = store, !.qa_chain = "chain"]
         IN IF call_ok
            THEN [st |-> [st1 EXCEPT !.conversation =
                              StoreConversation(@, q, ChainOutput(docs, q))],
                  ask |-> "answered", searched |-> TRUE, generated |-> TRUE,
                  index |-> store, docs |-> docs]
            ELSE [st |-> st1, ask |-> "error", searched |-> TRUE, generated |-> TRUE,
                  index |-> store, docs |-> docs]

MaxConversation == 2

\* the build of lines 123-132: what the sidebar shows, and the session
\* and disk it leaves
SubmitHandler(fs, submit, st, disk) ==
    LET text_chunks == get_text_chunks(get_pdf_text(fs))
        built == get_vector_store(text_chunks)
        same == [build |-> "none", st |-> st, disk |-> disk, text_chunks |-> text_chunks]
    IN IF ~submit THEN same
       ELSE IF fs = <<>> THEN [same EXCEPT !.build = "warning"]
       ELSE IF text_chunks = <<>> THEN [same EXCEPT !.build = "error"]
       ELSE [same EXCEPT !.build = "built", !.st.vector_store = built.vector_store,
                         !.disk = built.saved]

NotAsked(st) ==
    [st |-> st, ask |-> "none", searched |-> FALSE, generated |-> FALSE,
     index |-> None, docs |-> <<>>]

\* one run of main() with the given widget values.  FAISS.from_texts raises
\* on an empty list of texts, which ends the run before the question is read.
\* The generative call is made only when an index is found; it returns or
\* raises.
RunMain(fs, q, submit) ==
    \E b \in {SubmitHandler(fs, submit,
                            [vector_store |-> vector_store, qa_chain |-> qa_chain,
                             conversation |-> conversation], faiss_index)} :
    \E asked \in {b.build # "error" /\ q # ""} :
    \E call_ok \in (IF asked /\ (b.st.vector_store.present \/ b.disk.present)
                    THEN BOOLEAN ELSE {TRUE}) :
    \E r \in {IF asked THEN user_input(q, b.st, b.disk, call_ok) ELSE NotAsked(b.st)} :
       /\ Len(r.st.conversation) <= MaxConversation
       /\ pdf_docs' = fs
       /\ user_question' = q
       /\ vector_store' = r.st.vector_store
       /\ qa_chain' = r.st.qa_chain
       /\ conversation' = r.st.conversation
       /\ faiss_index' = b.disk
       /\ last_build' = (IF b.build = "built"
                         THEN [present |-> TRUE, chunks |-> b.text_chunks]
                         ELSE last_build)
       /\ last_run' = [build |-> b.build, asked |-> asked, ask |-> r.ask,
                       searched |-> r.searched, generated |-> r.generated,
                       index |-> r.index, docs |-> r.docs]
       /\ UNCHANGED <<appVars, frc, gen>>

(* Bounded widget inputs *)

MaxPdfs == 1

\* four chunks with a blank page between them, two chunks, a scanned PDF
PdfX == [pages |-> << <<"c1", "c2">>, <<>>, <<"c3", "c4">> >>]
PdfY == [pages |-> << <<"c5", "c6">> >>]
PdfScan == [pages |-> << <<>> >>]

PdfVocab == {PdfX, PdfY, PdfScan}

PdfUploads ==
    {fs \in SeqsUpTo(PdfVocab, MaxPdfs) : \A m, n \in 1..Len(fs) : m # n => fs[m] # fs[n]}

UiQuestions == {"", "q1", "q2"}

\* the uploader changes: a rerun with no button pressed
ChangePdfs ==
    \E fs \in PdfUploads : fs # pdf_docs /\ RunMain(fs, user_question, FALSE)

\* the text input changes: a rerun with no button pressed
ChangeUserQuestion ==
    \E q \in UiQuestions : q # user_question /\ RunMain(pdf_docs, q, FALSE)

\* a click on "Submit & Process"
PressSubmit == RunMain(pdf_docs, user_question, TRUE)

\* the page is reloaded or the server restarted: a new st.session_state and
\* empty widgets, the directory on disk stays
NewSession ==
    /\ pdf_docs' = <<>>
    /\ user_question' = ""
    /\ vector_store' = None
    /\ qa_chain' = NoChain
    /\ conversation' = <<>>
    /\ last_run' = NoRun
    /\ UNCHANGED <<faiss_index, last_build, appVars, frc, gen>>

InitUI == UiInit /\ AppInit /\ frc = NoCall /\ gen = NoCall
NextUI == ChangePdfs \/ ChangeUserQuestion \/ PressSubmit \/ NewSession
SpecUI == InitUI /\ [][NextUI]_vars

-----------------------------------------------------------------------------
(* Function-level specifications                                           *)

InitFRC == FrcInit /\ gen = NoCall /\ AppInit /\ UiInit
NextFRC == FrcCall
SpecFRC == InitFRC /\ [][NextFRC]_vars

InitGen == GenInit /\ frc = NoCall /\ AppInit /\ UiInit
NextGen == GenCall
SpecGen == InitGen /\ [][NextGen]_vars

-----------------------------------------------------------------------------
(* Claims about find_relevant_chunks (SpecFRC)                             *)

\* line indices of the document covered by the n-th emitted window
WindowLines(n) ==
    {i \in 0..(Len(frc.lines) - 1) :
        frc.selected[n] <= i /\ i < frc.selected[n] + frc.max_lines}

\* C1: find_relevant_chunks never returns two windows whose line-index
\* ranges overlap; no line index is covered by more than one emitted window.
C1_NoOverlappingWindows ==
    frc.pc = "done" =>
        \A m, n \in 1..Len(frc.selected) :
            m # n => WindowLines(m) \cap WindowLines(n) = {}

\* position of line idx in the ranking
RankOf(idx) == CHOOSE n \in 1..Len(frc.chunks) : frc.chunks[n].idx = idx

\* C8: the lines are ranked by score descending with ties broken by index
\* ascending, only the top max_chunks ranked lines are considered, the
\* selected windows are emitted in rank order, and at most max_chunks
\* windows are returned.
C8_RankedSelection ==
    frc.pc = "done" =>
        /\ Len(frc.chunks) = Len(frc.lines)
        /\ {frc.chunks[n].idx : n \in 1..Len(frc.chunks)} = 0..(Len(frc.lines) - 1)
        /\ \A n \in 1..Len(frc.chunks) :
              frc.chunks[n].score = similarity(frc.question, frc.lines[frc.chunks[n].idx + 1])
        /\ \A n \in 1..(Len(frc.chunks) - 1) :
              \/ ScoreGreater(frc.chunks[n].score, frc.chunks[n + 1].score)
              \/ /\ ScoreEqual(frc.chunks[n].score, frc.chunks[n + 1].score)
                 /\ frc.chunks[n].idx < frc.chunks[n + 1].idx
        /\ \A n \in 1..Len(frc.selected) : RankOf(frc.selected[n]) <= frc.max_chunks
        /\ \A m, n \in 1..Len(frc.selected) :
              m < n => RankOf(frc.selected[m]) < RankOf(frc.selected[n])
        /\ Len(frc.selected) <= frc.max_chunks
        /\ frc.result = Join([n \in 1..Len(frc.selected) |->
                                 Join(Slice(frc.lines, frc.selected[n],
                                            frc.selected[n] + frc.max_lines), NL)],
                             NL \o NL)

\* a call where two lines tie, more lines exist than max_chunks, and two
\* windows are emitted against document order
C8_Witness ==
    /\ frc.pc = "done"
    /\ Len(frc.lines) > frc.max_chunks
    /\ Len(frc.selected) >= 2
    /\ frc.selected[1] > frc.selected[2]
    /\ \E n \in 1..(Len(frc.chunks) - 1) :
          ScoreEqual(frc.chunks[n].score, frc.chunks[n + 1].score)

-----------------------------------------------------------------------------
(* Claims about generate_gpt_style_answer (SpecGen)                        *)

\* C2: the answer has at most 6 points and no point is the question
\* string verbatim.
C2_NoEchoAtMostSix ==
    gen.pc = "done" =>
        /\ Len(gen.points) <= 6
        /\ \A n \in 1..Len(gen.points) : gen.points[n] # gen.question

\* the sentences of the call that the claim calls relevant
Range(f) == {f[x] : x \in DOMAIN f}

RelevantAt ==
    {i \in 1..Len(gen.sentences) :
        /\ \E w \in {x \in Range(SplitWords(gen.question)) : Len(x) > 3} :
              Contains(Lower(gen.sentences[i]), Lower(w))
        /\ Len(Strip(gen.sentences[i])) > 10}

\* the n-th relevant sentence in order of appearance
NthRelevant(n) ==
    CHOOSE i \in RelevantAt : Cardinality({j \in RelevantAt : j <= i}) = n

\* C9: when at least one sentence of the context is relevant, the points
\* are exactly the first up-to-6 relevant sentences (trimmed) in their
\* order of appearance, and the fallback list is not used.
C9_FirstRelevantSentences ==
    (gen.pc = "done" /\ RelevantAt # {}) =>
        /\ Len(gen.points) = (IF Cardinality(RelevantAt) < 6 THEN Cardinality(RelevantAt) ELSE 6)
        /\ \A n \in 1..Len(gen.points) :
              gen.points[n] = Strip(gen.sentences[NthRelevant(n)])

\* a call with more than 6 relevant sentences and an irrelevant one
C9_Witness ==
    /\ gen.pc = "done"
    /\ Cardinality(RelevantAt) > 6
    /\ Cardinality(RelevantAt) < Len(gen.sentences)

-----------------------------------------------------------------------------
(* Claims about the app.py session (SpecApp)                               *)

\* the answer app.py produces from the canned list, character by character
ExpectedFallbackAnswer ==
    <<"*","*","P","o","i","n","t"," ","1",":","*","*"," ","S","p","l","i","t","t","i","n","g",
      " ","d","a","t","a"," ","i","n","t","o"," ","t","r","a","i","n","i","n","g"," ","a","n",
      "d"," ","t","e","s","t"," ","s","e","t","s"," ","e","n","s","u","r","e","s"," ","t","h",
      "e"," ","m","o","d","e","l"," ","i","s"," ","e","v","a","l","u","a","t","e","d"," ","o",
      "n"," ","u","n","s","e","e","n"," ","d","a","t","a",","," ","p","r","e","v","e","n","t",
      "i","n","g"," ","o","v","e","r","f","i","t","t","i","n","g",".","\n","\n","*","*","P","o",
      "i","n","t"," ","2",":","*","*"," ","P","e","r","f","o","r","m","a","n","c","e"," ","m",
      "e","t","r","i","c","s"," ","l","i","k","e"," ","a","c","c","u","r","a","c","y",","," ",
      "p","r","e","c","i","s","i","o","n",","," ","r","e","c","a","l","l",","," ","F","1","-",
      "s","c","o","r","e",","," ","a","n","d"," ","R","²"," ","h","e","l","p"," ","m","e","a",
      "s","u","r","e"," ","h","o","w"," ","w","e","l","l"," ","t","h","e"," ","m","o","d","e",
      "l"," ","p","e","r","f","o","r","m","s"," ","f","o","r"," ","d","i","f","f","e","r","e",
      "n","t"," ","t","a","s","k","s",".","\n","\n","*","*","P","o","i","n","t"," ","3",":","*",
      "*"," ","C","r","o","s","s","-","v","a","l","i","d","a","t","i","o","n"," ","e","v","a",
      "l","u","a","t","e","s"," ","t","h","e"," ","m","o","d","e","l"," ","a","c","r","o","s",
      "s"," ","m","u","l","t","i","p","l","e"," ","d","a","t","a"," ","s","p","l","i","t","s",
      " ","t","o"," ","g","e","t"," ","a"," ","m","o","r","e"," ","r","e","l","i","a","b","l",
      "e"," ","e","s","t","i","m","a","t","e"," ","o","f"," ","p","e","r","f","o","r","m","a",
      "n","c","e",".","\n","\n","*","*","P","o","i","n","t"," ","4",":","*","*"," ","H","y","p",
      "e","r","p","a","r","a","m","e","t","e","r"," ","t","u","n","i","n","g"," ","u","s","i",
      "n","g"," ","t","e","c","h","n","i","q","u","e","s"," ","l","i","k","e"," ","G","r","i",
      "d"," ","S","e","a","r","c","h"," ","o","r"," ","R","a","n","d","o","m"," ","S","e","a",
      "r","c","h"," ","h","e","l","p","s"," ","o","p","t","i","m","i","z","e"," ","m","o","d",
      "e","l"," ","p","e","r","f","o","r","m","a","n","c","e"," ","b","y"," ","f","i","n","d",
      "i","n","g"," ","t","h","e"," ","b","e","s","t"," ","p","a","r","a","m","e","t","e","r",
      " ","s","e","t","t","i","n","g","s",".","\n","\n","*","*","P","o","i","n","t"," ","5",":",
      "*","*"," ","F","e","a","t","u","r","e"," ","s","e","l","e","c","t","i","o","n"," ","a",
      "n","d"," ","e","n","g","i","n","e","e","r","i","n","g"," ","c","a","n"," ","i","m","p",
      "r","o","v","e"," ","m","o","d","e","l"," ","a","c","c","u","r","a","c","y"," ","b","y",
      " ","i","d","e","n","t","i","f","y","i","n","g"," ","t","h","e"," ","m","o","s","t"," ",
      "i","n","f","l","u","e","n","t","i","a","l"," ","v","a","r","i","a","b","l","e","s"," ",
      "a","n","d"," ","r","e","d","u","c","i","n","g"," ","n","o","i","s","e",".","\n","\n","*",
      "*","P","o","i","n","t"," ","6",":","*","*"," ","I","t","e","r","a","t","i","v","e"," ",
      "m","o","d","e","l"," ","i","m","p","r","o","v","e","m","e","n","t"," ","i","n","v","o",
      "l","v","e","s"," ","t","r","y","i","n","g"," ","d","i","f","f","e","r","e","n","t"," ",
      "a","l","g","o","r","i","t","h","m","s",","," ","a","d","j","u","s","t","i","n","g"," ",
      "p","a","r","a","m","e","t","e","r","s",","," ","a","n","d"," ","a","n","a","l","y","z",
      "i","n","g"," ","e","r","r","o","r","s"," ","t","o"," ","e","n","h","a","n","c","e"," ",
      "o","v","e","r","a","l","l"," ","p","r","e","d","i","c","t","i","o","n"," ","q","u","a",
      "l","i","t","y",".">>

\* C3: with an empty document text and any question, the retriever yields
\* an empty context and the answer recorded for that Send is exactly the 6
\* fallback points, numbered 1 to 6 in list order.
C3_EmptyDocsFallback ==
    (last_send.pc = "sent" /\ last_send.docs_text = EmptyStr) =>
        /\ last_send.context_chunk = EmptyStr
        /\ find_relevant_chunks(last_send.question, EmptyStr,
                                DefaultMaxChunks, DefaultMaxLines) = EmptyStr
        /\ chat_history # <<>>
        /\ chat_history[Len(chat_history)] =
              [question |-> last_send.question, answer |-> ExpectedFallbackAnswer]

\* a Send with a question that has a keyword, answered on an empty document
\* text while a file is uploaded, after an earlier answer
C3_Witness ==
    /\ last_send.pc = "sent"
    /\ last_send.docs_text = EmptyStr
    /\ Keywords(last_send.question) # <<>>
    /\ files # <<>>
    /\ Len(chat_history) >= 2

IsPrefix(s, t) == Len(s) <= Len(t) /\ SubSeq(t, 1, Len(s)) = s

\* C4: every Send with a non-empty question appends exactly one entry at
\* the end, existing entries are never modified, reordered or removed
\* individually, and entries disappear only when Clear empties the whole
\* transcript, in the run in which it also resets the document text.
C4_TranscriptAppendOnly ==
    [][ /\ (button' = "send" /\ question' # EmptyStr) =>
              /\ Len(chat_history') = Len(chat_history) + 1
              /\ IsPrefix(chat_history, chat_history')
              /\ chat_history'[Len(chat_history')].question = question'
        /\ (chat_history' # chat_history /\ IsPrefix(chat_history, chat_history')) =>
              /\ Len(chat_history') = Len(chat_history) + 1
              /\ button' = "send"
              /\ question' # EmptyStr
        /\ ~IsPrefix(chat_history, chat_history') =>
              /\ button' = "clear"
              /\ chat_history' = <<>>
              /\ docs_text' = (IF files' # <<>> THEN Ingest(files') ELSE EmptyStr)
      ]_vars

\* a Send appended a second entry with a different answer behind the first
C4_Witness ==
    /\ Len(chat_history) >= 2
    /\ chat_history[1].answer # chat_history[2].answer
    /\ button = "send"
    /\ last_send.pc = "sent"

\* C10 as stated: whenever a question is answered in a run where the
\* uploader holds at least one file, the document text used for retrieval is
\* the text re-ingested in that run from exactly the uploaded files, and
\* Clear leaves the document text empty only when no file is uploaded.
C10_ClearEmptyOnlyWithoutFiles ==
    [][ /\ (last_send'.pc = "sent" /\ files' # <<>>) =>
              /\ last_send'.docs_text = Ingest(files')
              /\ docs_text' = Ingest(files')
        /\ (button' = "clear" /\ docs_text' = EmptyStr) => files' = <<>>
      ]_vars

\* C10, amended: whenever a question is answered in a run where the
\* uploader holds at least one file, the document text used for retrieval is
\* the text re-ingested in that run from exactly the uploaded files; a run
\* with Clear pressed re-ingests too, so after Clear the document text is
\* that of the uploaded files, empty only when no file is uploaded or the
\* uploaded files yield no text.
C10_DocsReingestedEveryRun ==
    [][ /\ (last_send'.pc = "sent" /\ files' # <<>>) =>
              /\ last_send'.docs_text = Ingest(files')
              /\ docs_text' = Ingest(files')
              /\ last_send'.context_chunk =
                    (IF Ingest(files') # EmptyStr
                     THEN find_relevant_chunks(last_send'.question, Ingest(files'),
                                               DefaultMaxChunks, DefaultMaxLines)
                     ELSE EmptyStr)
        /\ button' = "clear" =>
              /\ docs_text' = (IF files' # <<>> THEN Ingest(files') ELSE EmptyStr)
              /\ docs_text' = EmptyStr => (files' = <<>> \/ Ingest(files') = EmptyStr)
      ]_vars

\* a question answered on two uploaded files after an earlier answer
C10_Witness ==
    /\ last_send.pc = "sent"
    /\ Len(files) = 2
    /\ last_send.docs_text # EmptyStr
    /\ Len(chat_history) >= 2
    /\ chat_history[1].answer = ExpectedFallbackAnswer

-----------------------------------------------------------------------------
(* Claims about the prompt_ui.py session (SpecUI)                          *)

\* in session st with the directory disk, question q is answered from the
\* session's index and recorded when the generative call returns
Answerable(q, st, disk) ==
    \E r \in {user_input(q, st, disk, TRUE)} :
       /\ r.ask = "answered"
       /\ r.st.vector_store = st.vector_store
       /\ r.st.conversation =
             Append(st.conversation,
                    [question |-> q,
                     answer |-> ChainOutput(similarity_search(st.vector_store, q, TopK), q)])

\* C5: when the generative call fails for a question, the transcript is
\* left unchanged (no entry for the failed question), the failure is shown
\* for that run only, and the session stays usable: a later question can
\* be answered and recorded.
C5_FailedCallLeavesTranscript ==
    [][ /\ last_run'.ask = "error" =>
              /\ conversation' = conversation
              /\ last_run'.generated
              /\ user_question' # ""
              /\ vector_store'.present
              /\ \A q \in UiQuestions \ {""} :
                    Answerable(q, [vector_store |-> vector_store', qa_chain |-> qa_chain',
                                   conversation |-> conversation'], faiss_index')
      ]_vars

\* the call failed for a question asked after an answer was recorded
C5_Witness ==
    /\ last_run.ask = "error"
    /\ conversation # <<>>
    /\ conversation[Len(conversation)].question # user_question

\* C6: a question asked when no index exists, in the session or on disk,
\* ends with the warning to upload and process first: no similarity
\* search, no generative call, no transcript entry, no error.
C6_NoIndexWarning ==
    [][ (last_run'.asked /\ ~vector_store'.present /\ ~faiss_index'.present) =>
            /\ last_run'.ask = "warning"
            /\ ~last_run'.searched
            /\ ~last_run'.generated
            /\ conversation' = conversation
            /\ last_run'.build # "error"
      ]_vars

\* Submit & Process was pressed with no file, and the question then asked
\* found no index
C6_Witness ==
    /\ last_run.asked
    /\ last_run.ask = "warning"
    /\ last_run.build = "warning"
    /\ ~faiss_index.present

\* C7: rebuilding fully replaces the previous index: the session's index
\* and the persisted one hold exactly the chunks of the most recent build,
\* and every question is retrieved from such an index.
C7_IndexIsLatestBuild ==
    /\ vector_store.present => vector_store = last_build
    /\ faiss_index = last_build
    /\ last_run.searched =>
          /\ last_run.index = last_build
          /\ \A n \in 1..Len(last_run.docs) : last_run.docs[n] \in Range(last_build.chunks)

\* the same question answered twice from different chunks, the second
\* time from the index of a later build
C7_Witness ==
    /\ Len(conversation) >= 2
    /\ conversation[1].question = conversation[2].question
    /\ conversation[1].answer.context # conversation[2].answer.context
    /\ last_run.searched
    /\ last_run.build = "built"

====
